---- MODULE Spec2Model ----
(***************************************************************************)
(* Render gateway (Cloudflare Worker, export default fetch) and the  *)
(* render server that runs in the container (Express POST /render),      *)
(* together with the R2 bucket both of them write to.                      *)
(*                                                                         *)
(* One gateway frame gw[r] and one render-server frame wk[r] exist per     *)
(* inbound request r.  A handler is cut into one action per await: the   *)
(* code between two awaits runs without interleaving (single-threaded      *)
(* event loop), the awaited operation resolves or rejects.                 *)
(*                                                                         *)
(* JavaScript undefined, a missing field and the empty string are all    *)
(* falsy and are all written "" here; a missing number is written -1.      *)
(***************************************************************************)
EXTENDS Integers, Sequences, FiniteSets, TLC

\* ---------------------------------------------------------------- bounds
MaxReq == 1      \* inbound requests
MaxSize == 2     \* largest artifact, in bytes
MaxClock == 1    \* last value of the render server's millisecond clock
MaxSeconds == 61 \* longest finite video, in seconds

Reqs == 1..MaxReq
Sizes == 1..MaxSize

NoField == ""
NoSize == -1
\* A field that a JSON object does not have and that the code goes on to use
\* in a template literal, which prints it as the text undefined;
\* Response.json() leaves a field with this value out of the payload.
Undefined == "undefined"

\* ------------------------------------------------------------- constants
PublicBase == "https://renders.tremendous.dev/"
Mp4 == "video/mp4"
JsonType == "application/json"
JsonUtf8 == "application/json; charset=utf-8"
OctetStream == "application/octet-stream"
TextPlain == "text/plain"
InfoText == "Remotion Worker - use POST /render to render videos"
EmptyResponse == "Empty response from container"
RenderFailed == "Render failed"
\* the message text, written here without its two backquotes
CompositionRequired == "compositionId is required."
ErrorRendering == "Error rendering video."
BoundBucket == "remotion-renders"

\* String.prototype.includes
Includes(s, t) ==
  \E i \in 1..(Len(s) - Len(t) + 1) : SubSeq(s, i, i + Len(t) - 1) = t

\* --------------------------------------------------------- configuration
\* interface Env: the container binding and the four R2 settings.
EnvFull ==
  [REMOTION_CONTAINER |-> TRUE, CLOUDFLARE_ACCOUNT_ID |-> "acct",
   R2_ACCESS_KEY_ID |-> "akid", R2_SECRET_ACCESS_KEY |-> "secret",
   R2_BUCKET_NAME |-> BoundBucket]
\* the two secrets have not been set with wrangler secret put
EnvNoSecrets ==
  [EnvFull EXCEPT !.R2_ACCESS_KEY_ID = NoField, !.R2_SECRET_ACCESS_KEY = NoField]
\* the Durable Object binding is missing from the deployment
EnvUnbound == [EnvFull EXCEPT !.REMOTION_CONTAINER = FALSE]
Envs == {EnvFull, EnvNoSecrets, EnvUnbound}
\* the env of a handler that has not been invoked
NoEnv ==
  [REMOTION_CONTAINER |-> FALSE, CLOUDFLARE_ACCOUNT_ID |-> NoField,
   R2_ACCESS_KEY_ID |-> NoField, R2_SECRET_ACCESS_KEY |-> NoField,
   R2_BUCKET_NAME |-> NoField]

\* interface R2Config
NoR2 == [accountId |-> NoField, accessKeyId |-> NoField,
         secretAccessKey |-> NoField, bucketName |-> NoField]
CallerR2 == [accountId |-> "evil", accessKeyId |-> "evil-akid",
             secretAccessKey |-> "evil-secret", bucketName |-> "evil-bucket"]

\* ------------------------------------------------------ inbound requests
\* A request body: json = FALSE is a body request.json() rejects (absent or
\* not JSON); otherwise the fields the two handlers look at.
NoBody == [json |-> FALSE, compositionId |-> NoField, renderId |-> NoField,
           r2Config |-> NoR2]
\* a body has the fields of the API alone, or a renderId and an r2Config of
\* the caller's own making as well
JsonBodies ==
  [json : {TRUE}, compositionId : {NoField, "HelloWorld"},
   renderId : {NoField}, r2Config : {NoR2}]
  \cup [json : {TRUE}, compositionId : {NoField, "HelloWorld"},
        renderId : {"caller-id"}, r2Config : {CallerR2}]
Requests ==
  [path : {"/render"}, method : {"POST"}, body : JsonBodies \cup {NoBody}]
    \cup [path : {"/render", "/"}, method : {"GET"}, body : {NoBody}]
    \cup [path : {"/"}, method : {"POST"},
          body : {[NoBody EXCEPT !.json = TRUE, !.compositionId = "HelloWorld"]}]
    \cup [path : {"/render"}, method : {"PUT"},
          body : {[NoBody EXCEPT !.json = TRUE, !.compositionId = "HelloWorld"]}]

\* ------------------------------------------------------------- responses
\* What the gateway answers to the caller; status 0 = nothing returned yet.
NoOut ==
  [status |-> 0, ctype |-> NoField, error |-> NoField, message |-> NoField,
   renderId |-> NoField, bucketName |-> NoField, key |-> NoField,
   size |-> NoSize, url |-> NoField, text |-> NoField]

\* What container.fetch() resolves to, as the gateway reads it:
\*   status, ctype   status line and Content-Type header
\*   null            response.body is null
\*   json            "ok" (an object), "null" (the JSON value null),
\*                   "bad" (response.json() rejects), "" (not a JSON body)
\*   key, size       fields of the JSON object
\*   bytes, length   bytes the body stream emits, declared Content-Length
\*   text            the body as text on the error path
NoResp ==
  [status |-> 0, ctype |-> NoField, null |-> FALSE, json |-> NoField,
   key |-> NoField, size |-> NoSize, bytes |-> 0, length |-> NoSize,
   text |-> NoField, owner |-> 0]

VARIABLES
  gw,       \* gw[r]: frame of the gateway's fetch handler for request r
  wk,       \* wk[r]: frame of the render server's handler for request r
  resp,     \* resp[r]: the response container.fetch() resolves to
  r2,       \* objects in the bucket, one per key
  putLog,   \* every put-object call issued so far
  now,      \* the render server's Date.now()
  tmp,      \* files under /tmp: tmp[t] is /tmp/out-t.mp4
  meta      \* frame of calculateMapSceneMetadata

vars == <<gw, wk, resp, r2, putLog, now, tmp, meta>>

\* ------------------------------------------------------------ the bucket
\* A put replaces whatever the bucket held under the same bucket and key.
Store(objects, o) ==
  {x \in objects : ~(x.bucket = o.bucket /\ x.key = o.key)} \cup {o}

\* ----------------------------------------------------------- the gateway
\* crypto.randomUUID(): a fresh identifier for each call
randomUUID(r) == "uuid-" \o ToString(r)

\* getContainer(env.REMOTION_CONTAINER, "renderer"): idFromName/get on the
\* binding; a TypeError when the binding is not there.
getContainer(e) == IF e.REMOTION_CONTAINER THEN "renderer" ELSE "TypeError"

\* the caller's r2Config left in place when there is one
enhancedBodyCallerConfig(originalBody, renderId, e) ==
  [originalBody EXCEPT
     !.renderId = renderId,
     !.r2Config = IF @ # NoR2 THEN @
                  ELSE [accountId |-> e.CLOUDFLARE_ACCOUNT_ID,
                        accessKeyId |-> e.R2_ACCESS_KEY_ID,
                        secretAccessKey |-> e.R2_SECRET_ACCESS_KEY,
                        bucketName |-> e.R2_BUCKET_NAME]]

\* the credentials kept from the first invocation and used ever after
enhancedBodyCached(originalBody, renderId, e) ==
  LET c == IF gw[1].env # NoEnv THEN gw[1].env ELSE e
  IN [originalBody EXCEPT
        !.renderId = renderId,
        !.r2Config = [accountId |-> c.CLOUDFLARE_ACCOUNT_ID,
                      accessKeyId |-> c.R2_ACCESS_KEY_ID,
                      secretAccessKey |-> c.R2_SECRET_ACCESS_KEY,
                      bucketName |-> c.R2_BUCKET_NAME]]

\* the spread written last, so that the caller's renderId wins
enhancedBodyCallerWins(originalBody, renderId, e) ==
  [originalBody EXCEPT
     !.renderId = IF @ # NoField THEN @ ELSE renderId,
     !.r2Config = [accountId |-> e.CLOUDFLARE_ACCOUNT_ID,
                   accessKeyId |-> e.R2_ACCESS_KEY_ID,
                   secretAccessKey |-> e.R2_SECRET_ACCESS_KEY,
                   bucketName |-> e.R2_BUCKET_NAME]]

\* the object spread: the caller's fields, then renderId and r2Config
enhancedBody(originalBody, renderId, e) ==
  [originalBody EXCEPT
     !.renderId = renderId,
     !.r2Config = [accountId |-> e.CLOUDFLARE_ACCOUNT_ID,
                   accessKeyId |-> e.R2_ACCESS_KEY_ID,
                   secretAccessKey |-> e.R2_SECRET_ACCESS_KEY,
                   bucketName |-> e.R2_BUCKET_NAME]]

\* the content type compared for equality instead
IsManifestExact(contentType) == contentType = JsonType

\* contentType.includes("application/json")
IsManifest(contentType) == Includes(contentType, JsonType)

\* the streaming path with one fixed object name for every render
StreamKeyFixed(renderId) == "output.mp4"

\* the key of the streaming path
StreamKey(renderId) == renderId \o ".mp4"

\* a null body taken for a stream
HasNoBodyUnchecked(response) == FALSE

\* if (!body)
HasNoBody(response) == response.null

\* the declared Content-Type header passed on to the put
PutContentTypeDeclared(response) == response.ctype

\* httpMetadata.contentType of the gateway's put
PutContentType(response) == Mp4

\* the url built from the identifier instead of the key
RenderResultOwnUrl(renderId, bucketName, key, size) ==
  [NoOut EXCEPT !.status = 200, !.ctype = JsonType, !.renderId = renderId,
                !.bucketName = bucketName, !.key = key, !.size = size,
                !.url = PublicBase \o renderId \o ".mp4"]

\* Response.json({ renderId, bucketName, key, size, url })
RenderResult(renderId, bucketName, key, size) ==
  [NoOut EXCEPT !.status = 200, !.ctype = JsonType, !.renderId = renderId,
                !.bucketName = bucketName, !.key = key, !.size = size,
                !.url = PublicBase \o key]

\* the manifest's key rebuilt from the identifier
ManifestResultOwnKey(renderId, e, result) ==
  RenderResult(renderId, e.R2_BUCKET_NAME, renderId \o ".mp4", result.size)

\* the result of the manifest path
ManifestResult(renderId, e, result) ==
  RenderResult(renderId, e.R2_BUCKET_NAME, result.key, result.size)

\* the size taken from the Content-Length header
StreamResultDeclared(renderId, e, key, r2Object, response) ==
  RenderResult(renderId, e.R2_BUCKET_NAME, key, response.length)

\* the result of the streaming path
StreamResult(renderId, e, key, r2Object, response) ==
  RenderResult(renderId, e.R2_BUCKET_NAME, key, r2Object.size)

\* the catch block without the identifier
CatchResponseNoId(renderId, message) ==
  [NoOut EXCEPT !.status = 500, !.ctype = JsonType, !.error = RenderFailed,
                !.message = message]

\* the catch block without { status: 500 }
CatchResponseNoStatus(renderId, message) ==
  [NoOut EXCEPT !.status = 200, !.ctype = JsonType, !.error = RenderFailed,
                !.message = message, !.renderId = renderId]

\* the catch block
CatchResponse(renderId, message) ==
  [NoOut EXCEPT !.status = 500, !.ctype = JsonType, !.error = RenderFailed,
                !.message = message, !.renderId = renderId]

\* the answer to a null body
NullBodyResponse(renderId) ==
  [NoOut EXCEPT !.status = 500, !.ctype = JsonType, !.error = EmptyResponse]

\* the container's error wrapped in the gateway's own error payload
ForwardedErrorWrapped(response, errorText) ==
  [NoOut EXCEPT !.status = response.status, !.ctype = JsonType,
                !.error = RenderFailed, !.message = errorText]

\* the container's error answered with status 500 whatever its status was
ForwardedErrorAs500(response, errorText) ==
  [NoOut EXCEPT !.status = 500, !.ctype = JsonType, !.text = errorText]

\* the answer that forwards the container's error
ForwardedError(response, errorText) ==
  [NoOut EXCEPT !.status = response.status, !.ctype = JsonType,
                !.text = errorText]

\* the answer to every path other than /render
InfoResponse ==
  [NoOut EXCEPT !.status = 200, !.ctype = TextPlain, !.text = InfoText]

\* The frame of one invocation of fetch.  Two fields are history kept for the
\* properties only: forwards counts the calls of container.fetch(), claimed
\* is the renderId the caller wrote in its own body.
GwIdle ==
  [pc |-> "idle", env |-> NoEnv, path |-> NoField, method |-> NoField,
   body |-> NoBody, renderId |-> NoField, key |-> NoField, out |-> NoOut,
   branch |-> NoField, raised |-> {}, forwards |-> 0, claimed |-> NoField]

WkIdle ==
  [pc |-> "idle", compositionId |-> NoField, renderId |-> NoField,
   r2Config |-> NoR2, outputLocation |-> -1, fileSize |-> NoSize,
   fileOwner |-> 0, key |-> NoField]

\* the handler returns out
Return(r, out) == [gw[r] EXCEPT !.pc = "done", !.out = out, !.body = NoBody]

\* the exception is recorded and the handler carries on where it was
CaughtNotFinal(r, source) ==
  [gw[r] EXCEPT !.out = CatchResponse(gw[r].renderId, source),
                !.raised = @ \cup {source}]

\* an exception reaches the catch block
Caught(r, source) ==
  [gw[r] EXCEPT !.pc = "done", !.body = NoBody,
                !.out = CatchResponse(gw[r].renderId, source),
                !.raised = @ \cup {source}]

\* fetch(request, env) is invoked with the env of the deployment at that
\* moment (secrets may have been set or rotated, the binding added or removed
\* since the last invocation): routing on the path, the container handle,
\* the identifier, and the start of request.json().
GwReceive(r) ==
  /\ gw[r].pc = "idle"
  /\ \E request \in Requests, env \in Envs :
       LET f == [gw[r] EXCEPT !.env = env, !.path = request.path,
                                !.method = request.method]
       IN gw' = [gw EXCEPT ![r] =
            IF request.path # "/render"
            THEN [f EXCEPT !.pc = "done", !.out = InfoResponse]
            ELSE IF getContainer(f.env) = "TypeError"
            THEN [f EXCEPT !.pc = "thrown", !.raised = {"container"}]
            ELSE [f EXCEPT !.pc = "json", !.renderId = randomUUID(r),
                           !.body = request.body,
                           !.claimed = request.body.renderId]]
  /\ UNCHANGED <<wk, resp, r2, putLog, now, tmp, meta>>

\* request.json() settles, and the gateway itself turns away a body without
\* compositionId instead of forwarding it
GwForwardValidated(r) ==
  /\ gw[r].pc = "json"
  /\ IF gw[r].body.json /\ gw[r].body.compositionId # NoField
     THEN LET b == enhancedBody(gw[r].body, gw[r].renderId, gw[r].env)
          IN /\ gw' = [gw EXCEPT ![r] =
                  [@ EXCEPT !.pc = "fetch", !.body = NoBody,
                            !.forwards = @ + 1]]
             /\ wk' = [wk EXCEPT ![r] =
                  [@ EXCEPT !.pc = "recv", !.compositionId = b.compositionId,
                            !.renderId = b.renderId, !.r2Config = b.r2Config]]
     ELSE /\ gw' = [gw EXCEPT ![r] =
               IF gw[r].body.json
               THEN Return(r, [NoOut EXCEPT !.status = 400, !.ctype = JsonType,
                                            !.text = CompositionRequired])
               ELSE Caught(r, "parse")]
          /\ wk' = wk
  /\ UNCHANGED <<resp, r2, putLog, now, tmp, meta>>

\* request.json() settles; on success the enhanced body goes to the
\* container.
GwForward(r) ==
  /\ gw[r].pc = "json"
  /\ IF gw[r].body.json
     THEN LET b == enhancedBody(gw[r].body, gw[r].renderId, gw[r].env)
          IN /\ gw' = [gw EXCEPT ![r] =
                  [@ EXCEPT !.pc = "fetch", !.body = NoBody,
                            !.forwards = @ + 1]]
             /\ wk' = [wk EXCEPT ![r] =
                  [@ EXCEPT !.pc = "recv", !.compositionId = b.compositionId,
                            !.renderId = b.renderId, !.r2Config = b.r2Config]]
     ELSE /\ gw' = [gw EXCEPT ![r] = Caught(r, "parse")]
          /\ wk' = wk
  /\ UNCHANGED <<resp, r2, putLog, now, tmp, meta>>

\* container.fetch() rejects and the request is sent again
GwFetchRetried(r) ==
  /\ gw[r].pc = "fetch"
  /\ gw[r].forwards < 3
  /\ gw' = [gw EXCEPT ![r] = [@ EXCEPT !.forwards = @ + 1]]
  /\ UNCHANGED <<wk, resp, r2, putLog, now, tmp, meta>>

\* container.fetch() rejects: the container cannot be reached or does not
\* answer.
GwFetchFails(r) ==
  /\ gw[r].pc = "fetch"
  /\ gw' = [gw EXCEPT ![r] = Caught(r, "forward")]
  /\ UNCHANGED <<wk, resp, r2, putLog, now, tmp, meta>>

\* the gateway's put-object call
GatewayPut(r, key, response) ==
  [by |-> "gateway", req |-> r, bucket |-> BoundBucket, key |-> key,
   ctype |-> PutContentType(response)]

\* container.fetch() resolves: the branch on status, content type and body
\* (the branch taken is kept in the frame for the properties below).
GwResponse(r) ==
  /\ gw[r].pc = "fetch"
  /\ resp[r].status # 0
  /\ LET response == resp[r]
         key == StreamKey(gw[r].renderId)
     IN IF response.status = 200
        THEN IF IsManifest(response.ctype)
             THEN /\ gw' = [gw EXCEPT ![r] =
                       [@ EXCEPT !.pc = "resjson", !.branch = "manifest"]]
                  /\ putLog' = putLog
             ELSE IF HasNoBody(response)
             THEN /\ gw' = [gw EXCEPT ![r] =
                       [Return(r, NullBodyResponse(gw[r].renderId))
                          EXCEPT !.branch = "null"]]
                  /\ putLog' = putLog
             ELSE /\ gw' = [gw EXCEPT ![r] =
                       [@ EXCEPT !.pc = "put", !.key = key, !.branch = "stream"]]
                  /\ putLog' = putLog \cup {GatewayPut(r, key, response)}
        ELSE /\ gw' = [gw EXCEPT ![r] =
                  [@ EXCEPT !.pc = "text", !.branch = "error"]]
             /\ putLog' = putLog
  /\ UNCHANGED <<wk, resp, r2, now, tmp, meta>>

\* response.json() resolves on the manifest path, or rejects because the
\* body is not JSON; reading a field of the value null throws.
GwManifest(r) ==
  /\ gw[r].pc = "resjson"
  /\ LET result == resp[r]
     IN gw' = [gw EXCEPT ![r] =
          IF result.json # "ok"
          THEN Caught(r, "read")
          ELSE Return(r, ManifestResult(gw[r].renderId, gw[r].env, result))]
  /\ UNCHANGED <<wk, resp, r2, putLog, now, tmp, meta>>

\* response.json() or response.text() rejects: the connection to the
\* container breaks while the body is read.
GwReadFails(r) ==
  /\ gw[r].pc \in {"resjson", "text"}
  /\ gw' = [gw EXCEPT ![r] = Caught(r, "read")]
  /\ UNCHANGED <<wk, resp, r2, putLog, now, tmp, meta>>

\* env.R2_BUCKET.put() resolves: the bucket holds what the stream emitted.
GwPutDone(r) ==
  /\ gw[r].pc = "put"
  /\ LET response == resp[r]
         r2Object == [bucket |-> BoundBucket, key |-> gw[r].key,
                      size |-> response.bytes,
                      ctype |-> PutContentType(response),
                      by |-> "gateway", req |-> r, owner |-> response.owner]
     IN /\ r2' = Store(r2, r2Object)
        /\ gw' = [gw EXCEPT ![r] =
             Return(r, StreamResult(gw[r].renderId, gw[r].env, gw[r].key,
                                    r2Object, response))]
  /\ UNCHANGED <<wk, resp, putLog, now, tmp, meta>>

\* env.R2_BUCKET.put() rejects: the backend refuses the write ("put"), or
\* the body stream ends with an error before its end ("truncated"); nothing
\* is stored.
GwPutFails(r) ==
  /\ gw[r].pc = "put"
  /\ \E cause \in {"put", "truncated"} :
       gw' = [gw EXCEPT ![r] = Caught(r, cause)]
  /\ UNCHANGED <<wk, resp, r2, putLog, now, tmp, meta>>

\* response.text() resolves on the error path.
GwErrorText(r) ==
  /\ gw[r].pc = "text"
  /\ gw' = [gw EXCEPT ![r] = Return(r, ForwardedError(resp[r], resp[r].text))]
  /\ UNCHANGED <<wk, resp, r2, putLog, now, tmp, meta>>

\* ----------------------------------------------------- the render server
\* a file under /tmp: its size and the request whose render wrote it
NoFile == [owner |-> 0, size |-> 0]

\* getS3Client: null unless accountId, accessKeyId and secretAccessKey are
\* all set
getS3Client(config) ==
  IF config.accountId = NoField \/ config.accessKeyId = NoField
       \/ config.secretAccessKey = NoField
  THEN "null" ELSE "client"

\* the upload attempted whether or not there is a client
TakesUploadPathAlways(renderId, r2Config) == TRUE

\* if (s3Client && renderId && r2Config)
TakesUploadPath(renderId, r2Config) ==
  getS3Client(r2Config) # "null" /\ renderId # NoField

\* the rejection sent with another status
RejectedNotFound ==
  [NoResp EXCEPT !.status = 404, !.ctype = JsonUtf8, !.text = CompositionRequired]

\* res.status(400).json({ message })
Rejected ==
  [NoResp EXCEPT !.status = 400, !.ctype = JsonUtf8, !.text = CompositionRequired]

\* res.status(500).json({ message, error }) of the catch block
Failed ==
  [NoResp EXCEPT !.status = 500, !.ctype = JsonUtf8, !.text = ErrorRendering]

\* the bytes sent after the upload, in place of the manifest
ManifestWithBytes(key, fileSize, owner) ==
  [NoResp EXCEPT !.status = 200, !.ctype = Mp4, !.bytes = fileSize,
                 !.length = fileSize, !.owner = owner]

\* res.status(200).json({ success, renderId, key, size, uploadedToR2 })
Manifest(key, fileSize, owner) ==
  [NoResp EXCEPT !.status = 200, !.ctype = JsonUtf8, !.json = "ok",
                 !.key = key, !.size = fileSize, !.owner = owner]

\* Content-Type, Content-Length and res.status(200).send(fileBuffer)
RawBytes(fileSize, owner) ==
  [NoResp EXCEPT !.status = 200, !.ctype = Mp4, !.bytes = fileSize,
                 !.length = fileSize, !.owner = owner]

\* the response is on its way to the gateway
Respond(r, response) == resp' = [resp EXCEPT ![r] = response]

\* The handler starts: the output path is taken from the clock, and a
\* request without compositionId is rejected.
WkStart(r) ==
  /\ wk[r].pc = "recv"
  /\ IF wk[r].compositionId = NoField
     THEN /\ wk' = [wk EXCEPT ![r] = [@ EXCEPT !.pc = "stat", !.outputLocation = now]]
          /\ Respond(r, Rejected)
     ELSE /\ wk' = [wk EXCEPT ![r] = [@ EXCEPT !.pc = "select", !.outputLocation = now]]
          /\ resp' = resp
  /\ UNCHANGED <<gw, r2, putLog, now, tmp, meta>>

\* selectComposition() settles.
WkSelect(r) ==
  /\ wk[r].pc = "select"
  /\ \/ /\ wk' = [wk EXCEPT ![r] = [@ EXCEPT !.pc = "render"]]
        /\ resp' = resp
     \/ /\ wk' = [wk EXCEPT ![r] = [@ EXCEPT !.pc = "stat"]]
        /\ Respond(r, Failed)
  /\ UNCHANGED <<gw, r2, putLog, now, tmp, meta>>

\* renderMedia() settles: on success the video is at outputLocation; a
\* failed render may leave a partial file behind.
WkRender(r) ==
  /\ wk[r].pc = "render"
  /\ \/ /\ \E n \in Sizes :
             tmp' = [tmp EXCEPT ![wk[r].outputLocation] = [owner |-> r, size |-> n]]
        /\ wk' = [wk EXCEPT ![r] = [@ EXCEPT !.pc = "read"]]
        /\ resp' = resp
     \/ /\ \/ tmp' = tmp
           \/ tmp' = [tmp EXCEPT ![wk[r].outputLocation] = [owner |-> r, size |-> 1]]
        /\ wk' = [wk EXCEPT ![r] = [@ EXCEPT !.pc = "stat"]]
        /\ Respond(r, Failed)
  /\ UNCHANGED <<gw, r2, putLog, now, meta>>

\* the render server's PutObjectCommand
WorkerPut(r, r2Config, key) ==
  [by |-> "worker", req |-> r, bucket |-> r2Config.bucketName, key |-> key,
   ctype |-> Mp4]

\* fs.readFile() settles; then the choice between uploading and returning
\* the bytes.
WkRead(r) ==
  /\ wk[r].pc = "read"
  /\ LET fileBuffer == tmp[wk[r].outputLocation]
         key == wk[r].renderId \o ".mp4"
         w == [wk[r] EXCEPT !.fileSize = fileBuffer.size,
                            !.fileOwner = fileBuffer.owner]
     IN IF fileBuffer = NoFile
        THEN /\ wk' = [wk EXCEPT ![r] = [@ EXCEPT !.pc = "stat"]]
             /\ Respond(r, Failed)
             /\ putLog' = putLog
        ELSE IF TakesUploadPath(wk[r].renderId, wk[r].r2Config)
        THEN /\ wk' = [wk EXCEPT ![r] = [w EXCEPT !.pc = "upload", !.key = key]]
             /\ resp' = resp
             /\ putLog' = putLog \cup {WorkerPut(r, wk[r].r2Config, key)}
        ELSE /\ wk' = [wk EXCEPT ![r] = [w EXCEPT !.pc = "stat"]]
             /\ Respond(r, RawBytes(fileBuffer.size, fileBuffer.owner))
             /\ putLog' = putLog
  /\ UNCHANGED <<gw, r2, now, tmp, meta>>

\* a rejected upload followed by the bytes, for the gateway to store
UploadFailedFallsBack(key, fileSize, owner) ==
  [NoResp EXCEPT !.status = 200, !.ctype = Mp4, !.bytes = fileSize,
                 !.length = fileSize, !.owner = owner]

\* a rejected upload answered with the manifest all the same
UploadFailedSwallowed(key, fileSize, owner) == Manifest(key, fileSize, owner)

\* what the render server answers when s3Client.send() rejects: the catch
\* block
UploadFailed(key, fileSize, owner) == Failed

\* s3Client.send() settles: the object is in the bucket and the manifest is
\* sent, or the upload failed (always, when there is no bucket name).
WkUpload(r) ==
  /\ wk[r].pc = "upload"
  /\ \/ /\ wk[r].r2Config.bucketName # NoField
        /\ r2' = Store(r2, [bucket |-> wk[r].r2Config.bucketName,
                            key |-> wk[r].key, size |-> wk[r].fileSize,
                            ctype |-> Mp4, by |-> "worker", req |-> r,
                            owner |-> wk[r].fileOwner])
        /\ Respond(r, Manifest(wk[r].key, wk[r].fileSize, wk[r].fileOwner))
     \/ /\ r2' = r2
        /\ Respond(r, UploadFailed(wk[r].key, wk[r].fileSize, wk[r].fileOwner))
  /\ wk' = [wk EXCEPT ![r] = [@ EXCEPT !.pc = "stat"]]
  /\ UNCHANGED <<gw, putLog, now, tmp, meta>>

\* the handler ends without looking at the output path
WkStatNoCleanup(r) ==
  /\ wk[r].pc = "stat"
  /\ wk' = [wk EXCEPT ![r] = [@ EXCEPT !.pc = "end"]]
  /\ UNCHANGED <<gw, resp, r2, putLog, now, tmp, meta>>

\* finally: fs.stat(outputLocation)
WkStat(r) ==
  /\ wk[r].pc = "stat"
  /\ wk' = [wk EXCEPT ![r] =
       [@ EXCEPT !.pc = IF tmp[wk[r].outputLocation] # NoFile
                        THEN "unlink" ELSE "end"]]
  /\ UNCHANGED <<gw, resp, r2, putLog, now, tmp, meta>>

\* finally: fs.unlink(outputLocation)
WkUnlink(r) ==
  /\ wk[r].pc = "unlink"
  /\ tmp' = [tmp EXCEPT ![wk[r].outputLocation] = NoFile]
  /\ wk' = [wk EXCEPT ![r] = [@ EXCEPT !.pc = "end"]]
  /\ UNCHANGED <<gw, resp, r2, putLog, now, meta>>

\* A millisecond passes on the render server.  Date.now() is read only when
\* a handler starts, and only whether two readings are equal matters; a run
\* stays the same when all its readings are shifted, so the clock is moved
\* on only from a value that some handler has read.
Tick ==
  /\ now < MaxClock
  /\ \E r \in DOMAIN wk :
       wk[r].pc \notin {"idle", "recv"} /\ wk[r].outputLocation = now
  /\ now' = now + 1
  /\ UNCHANGED <<gw, wk, resp, r2, putLog, tmp, meta>>

\* --------------------------------------------------- any other container
\* The responses a container may give that the render server above does not:
\* the gateway's branches are written for them as well.
WebM == "video/webm"
DoubleResponses ==
  [status : {200}, ctype : {Mp4}, null : {FALSE}, json : {NoField},
   key : {NoField}, size : {NoSize}, bytes : 0..MaxSize,
   length : {NoSize} \cup 0..MaxSize, text : {NoField},
   owner : {0}]
  \cup [status : {200}, ctype : {WebM, OctetStream, NoField}, null : BOOLEAN,
        json : {NoField}, key : {NoField}, size : {NoSize}, bytes : {1},
        length : {1}, text : {NoField}, owner : {0}]
  \cup {[NoResp EXCEPT !.status = 200, !.ctype = Mp4, !.null = TRUE]}
  \cup [status : {200}, ctype : {JsonType, JsonUtf8}, null : {FALSE},
        json : {"ok"}, key : {"abc.mp4", Undefined}, size : {MaxSize, NoSize},
        bytes : {0}, length : {NoSize}, text : {NoField},
        owner : {0}]
  \cup [status : {200}, ctype : {JsonType}, null : {FALSE},
        json : {"ok", "null", "bad"}, key : {"abc.mp4"}, size : {MaxSize},
        bytes : {0}, length : {NoSize}, text : {NoField},
        owner : {0}]
  \cup [status : {201, 404, 500}, ctype : {TextPlain}, null : {FALSE},
        json : {NoField}, key : {NoField}, size : {NoSize}, bytes : {0},
        length : {NoSize}, text : {"renderer crashed"},
        owner : {0}]

\* the container answers the forwarded request with any of them
DoubleRespond(r) ==
  /\ wk[r].pc = "recv"
  /\ \E response \in DoubleResponses :
       resp' = [resp EXCEPT ![r] = [response EXCEPT !.owner = r]]
  /\ wk' = [wk EXCEPT ![r] = [@ EXCEPT !.pc = "end"]]
  /\ UNCHANGED <<gw, r2, putLog, now, tmp, meta>>

\* ------------------------------------------- calculateMapSceneMetadata
MIN_DURATION_SECONDS == 30
MAX_DURATION_SECONDS == 60
DEFAULT_DURATION_FRAMES == MIN_DURATION_SECONDS * 30
VIDEO_FPS == 30
VIDEO_EXTENSIONS == {".mp4", ".webm", ".mov", ".avi", ".mkv"}
IMAGE_EXTENSIONS == {".jpg", ".jpeg", ".png", ".gif", ".webp", ".avif"}

\* A duration is a whole number of sixtieths of a second (half a frame), or
\* Infinity, which a video element reports for a stream without an end.
TicksPerSecond == 60
Infinity == -1
Durations == 0..(MaxSeconds * TicksPerSecond) \cup {Infinity}

Math_min(a, b) ==
  IF a = Infinity THEN b ELSE IF b = Infinity THEN a ELSE IF a < b THEN a ELSE b
Math_max(a, b) ==
  IF a = Infinity \/ b = Infinity THEN Infinity ELSE IF a > b THEN a ELSE b
\* Math.ceil(ticks / TicksPerSecond * fps)
Math_ceil(ticks, fps) == (ticks * fps + TicksPerSecond - 1) \div TicksPerSecond
Math_floor(ticks, fps) == (ticks * fps) \div TicksPerSecond

UpperCase == "ABCDEFGHIJKLMNOPQRSTUVWXYZ"
LowerCase == "abcdefghijklmnopqrstuvwxyz"
LowerOf(c) ==
  IF \E i \in 1..Len(UpperCase) : SubSeq(UpperCase, i, i) = c
  THEN LET i == CHOOSE i \in 1..Len(UpperCase) : SubSeq(UpperCase, i, i) = c
       IN SubSeq(LowerCase, i, i)
  ELSE c
\* String.prototype.toLowerCase
RECURSIVE toLowerCase(_)
toLowerCase(s) ==
  IF Len(s) = 0 THEN ""
  ELSE LowerOf(SubSeq(s, 1, 1)) \o toLowerCase(SubSeq(s, 2, Len(s)))
\* urlLower.match(/^[^?#]+/): the text before the first ? or #, or the
\* whole text when there is nothing before it
RECURSIVE PathPrefix(_)
PathPrefix(s) ==
  IF Len(s) = 0 \/ SubSeq(s, 1, 1) \in {"?", "#"} THEN ""
  ELSE SubSeq(s, 1, 1) \o PathPrefix(SubSeq(s, 2, Len(s)))
PathOf(urlLower) ==
  IF PathPrefix(urlLower) # "" THEN PathPrefix(urlLower) ELSE urlLower
\* String.prototype.endsWith
endsWith(s, ext) ==
  Len(s) >= Len(ext) /\ SubSeq(s, Len(s) - Len(ext) + 1, Len(s)) = ext

getMediaType(url) ==
  LET path == PathOf(toLowerCase(url))
  IN IF \E ext \in VIDEO_EXTENSIONS : endsWith(path, ext) THEN "video"
     ELSE IF \E ext \in IMAGE_EXTENSIONS : endsWith(path, ext) THEN "image"
     ELSE "null"

\* the duration rounded down
durationInFramesFloor(videoDurationSeconds) ==
  Math_floor(Math_max(MIN_DURATION_SECONDS * TicksPerSecond,
                      Math_min(videoDurationSeconds,
                               MAX_DURATION_SECONDS * TicksPerSecond)),
             VIDEO_FPS)

\* Math.ceil(Math.max(MIN, Math.min(videoDurationSeconds, MAX)) * VIDEO_FPS)
durationInFrames(videoDurationSeconds) ==
  Math_ceil(Math_max(MIN_DURATION_SECONDS * TicksPerSecond,
                     Math_min(videoDurationSeconds,
                              MAX_DURATION_SECONDS * TicksPerSecond)),
            VIDEO_FPS)

\* the values of props.mediaUrl
MediaUrls ==
  {"", "https://cdn.example/clip.mp4", "https://cdn.example/CLIP.MOV?sig=1",
   "https://cdn.example/clip.webm#t=5", "https://cdn.example/photo.jpg",
   "https://cdn.example/photo.png?next=a.mp4", "https://cdn.example/clip.mp4.txt",
   "https://cdn.example/watch?v=clip.mp4"}

MetaIdle ==
  [pc |-> "idle", mediaUrl |-> "", loaded |-> FALSE, videoDurationSeconds |-> 0,
   durationInFrames |-> 0]

\* calculateMapSceneMetadata({ props }) up to its first await or its return
MetaCall ==
  /\ meta.pc = "call"
  /\ meta' = IF Len(meta.mediaUrl) > 0 /\ getMediaType(meta.mediaUrl) = "video"
             THEN [meta EXCEPT !.pc = "metadata"]
             ELSE [meta EXCEPT !.pc = "done",
                               !.durationInFrames = DEFAULT_DURATION_FRAMES]
  /\ UNCHANGED <<gw, wk, resp, r2, putLog, now, tmp>>

\* getVideoMetadata() resolves
MetaLoaded ==
  /\ meta.pc = "metadata"
  /\ \E durationInSeconds \in Durations :
       meta' = [meta EXCEPT !.pc = "done", !.loaded = TRUE,
                            !.videoDurationSeconds = durationInSeconds,
                            !.durationInFrames = durationInFrames(durationInSeconds)]
  /\ UNCHANGED <<gw, wk, resp, r2, putLog, now, tmp>>

\* getVideoMetadata() rejects: the catch block, then the default
MetaFails ==
  /\ meta.pc = "metadata"
  /\ meta' = [meta EXCEPT !.pc = "done",
                          !.durationInFrames = DEFAULT_DURATION_FRAMES]
  /\ UNCHANGED <<gw, wk, resp, r2, putLog, now, tmp>>

\* ------------------------------------------------------ specifications
Init ==
  /\ gw = [r \in Reqs |-> GwIdle]
  /\ wk = [r \in Reqs |-> WkIdle]
  /\ resp = [r \in Reqs |-> NoResp]
  /\ r2 = {}
  /\ putLog = {}
  /\ now = 0
  /\ tmp = [t \in 0..MaxClock |-> NoFile]
  /\ meta = MetaIdle

Gateway(r) ==
  \/ GwReceive(r)
  \/ GwForward(r)
  \/ GwFetchFails(r)
  \/ GwResponse(r)
  \/ GwManifest(r)
  \/ GwReadFails(r)
  \/ GwPutDone(r)
  \/ GwPutFails(r)
  \/ GwErrorText(r)

RenderServer(r) ==
  \/ WkStart(r)
  \/ WkSelect(r)
  \/ WkRender(r)
  \/ WkRead(r)
  \/ WkUpload(r)
  \/ WkStat(r)
  \/ WkUnlink(r)

\* the gateway in front of the render server of this repository
Next ==
  \/ \E r \in Reqs : Gateway(r)
  \/ \E r \in Reqs : RenderServer(r)
  \/ Tick

Spec == Init /\ [][Next]_vars

\* Every await settles: both runtimes keep running the continuations that
\* are ready, and an operation that gets no answer is rejected by its
\* platform after the request budget.
Fairness ==
  \A r \in Reqs : WF_vars(Gateway(r)) /\ WF_vars(RenderServer(r))

SpecFair == Spec /\ Fairness

\* the gateway in front of a container that answers anything
NextDouble ==
  \/ \E r \in Reqs : Gateway(r)
  \/ \E r \in Reqs : DoubleRespond(r)

SpecDouble == Init /\ [][NextDouble]_vars

\* ---------------------------------------------- two requests in a row
\* The gateway up to the forward, for one request more than above; the
\* requests are numbered in the order of their arrival.
ReqsInRow == 1..(MaxReq + 1)

InitInRow ==
  /\ gw = [r \in ReqsInRow |-> GwIdle]
  /\ wk = [r \in ReqsInRow |-> WkIdle]
  /\ resp = [r \in ReqsInRow |-> NoResp]
  /\ r2 = {}
  /\ putLog = {}
  /\ now = 0
  /\ tmp = [t \in 0..MaxClock |-> NoFile]
  /\ meta = MetaIdle

\* request r arrives after request r - 1
Arrive(r) ==
  /\ IF r = 1 THEN TRUE ELSE gw[r - 1].pc # "idle"
  /\ GwReceive(r)

NextInRow ==
  \/ \E r \in ReqsInRow : Arrive(r)
  \/ \E r \in ReqsInRow : GwForward(r)
  \/ \E r \in ReqsInRow : GwFetchFails(r)

SpecInRow == InitInRow /\ [][NextInRow]_vars

\* ------------------------------------- several jobs in the render server
\* The render server alone, as one Node process handling the jobs that
\* container.fetch() delivers to it: the job of request r carries the
\* renderId minted for r, or none when the server is called directly, and
\* an r2Config as a deployment's env can make it.
EnvNoBucket == [EnvFull EXCEPT !.R2_BUCKET_NAME = NoField]
JobConfigs ==
  {[accountId |-> e.CLOUDFLARE_ACCOUNT_ID, accessKeyId |-> e.R2_ACCESS_KEY_ID,
    secretAccessKey |-> e.R2_SECRET_ACCESS_KEY, bucketName |-> e.R2_BUCKET_NAME] :
     e \in {EnvFull, EnvNoSecrets, EnvNoBucket}}

\* POST /render arrives at the render server
Deliver(r) ==
  /\ wk[r].pc = "idle"
  /\ \E renderId \in {randomUUID(r), NoField}, r2Config \in JobConfigs :
       wk' = [wk EXCEPT ![r] =
         [@ EXCEPT !.pc = "recv", !.compositionId = "HelloWorld",
                   !.renderId = renderId, !.r2Config = r2Config]]
  /\ UNCHANGED <<gw, resp, r2, putLog, now, tmp, meta>>

NextServer ==
  \/ \E r \in ReqsInRow : Deliver(r)
  \/ \E r \in ReqsInRow : RenderServer(r)
  \/ Tick

SpecServer == InitInRow /\ [][NextServer]_vars

\* --------------------------------------------- the MapScene composition
InitMeta ==
  /\ gw = [r \in Reqs |-> GwIdle]
  /\ wk = [r \in Reqs |-> WkIdle]
  /\ resp = [r \in Reqs |-> NoResp]
  /\ r2 = {}
  /\ putLog = {}
  /\ now = 0
  /\ tmp = [t \in 0..MaxClock |-> NoFile]
  /\ \E mediaUrl \in MediaUrls :
       meta = [MetaIdle EXCEPT !.pc = "call", !.mediaUrl = mediaUrl]

NextMeta ==
  \/ MetaCall
  \/ MetaLoaded
  \/ MetaFails

SpecMeta == InitMeta /\ [][NextMeta]_vars

\* ------------------------------------------------------------ properties
Minted(r) == gw[r].renderId # NoField
Answered(r) == gw[r].pc = "done"
\* the gateway has returned a 200 result for render request r
Result(r) == gw[r].path = "/render" /\ gw[r].out.status = 200
\* the gateway has taken the container's response for request r
Handled(r) == gw[r].branch # NoField
JsonTypes == {JsonType, JsonUtf8}
ManifestAnswer(r) == resp[r].status = 200 /\ resp[r].ctype \in JsonTypes
StreamAnswer(r) == resp[r].status = 200 /\ resp[r].ctype \notin JsonTypes
GatewayPuts(r) == {p \in putLog : p.by = "gateway" /\ p.req = r}
GatewayObjects(r) == {o \in r2 : o.by = "gateway" /\ o.req = r}
CaughtSources == {"parse", "forward", "read", "put", "truncated"}

\* C1: whenever parsing the body, forwarding, reading the container's
\* response or the storage put raises an exception for a /render request, the
\* gateway answers 500 with error, message and the request's renderId.
C1_FaultAnswered500 ==
  \A r \in Reqs :
    gw[r].raised \cap CaughtSources # {} =>
      /\ Answered(r) /\ Minted(r)
      /\ gw[r].out.status = 500
      /\ gw[r].out.error # NoField
      /\ gw[r].out.message # NoField
      /\ gw[r].out.renderId = gw[r].renderId

C1_Witness ==
  \E r \in Reqs :
    /\ "read" \in gw[r].raised /\ gw[r].branch = "manifest"
    /\ gw[r].out.status = 500 /\ gw[r].out.renderId = gw[r].renderId

\* C2: the fetch handler never ends by throwing: whatever fails, a response
\* is returned.
C2_HandlerNeverThrows == \A r \in Reqs : gw[r].pc # "thrown"

\* C3: once a renderId is minted, every response returned for the request
\* contains it.
C3_EveryResponseHasId ==
  \A r \in Reqs :
    Minted(r) /\ Answered(r) => gw[r].out.renderId = gw[r].renderId

\* C4: a 200 result is returned only for a key some completed put of that
\* request has written, and the render server's manifest exists only after
\* its own upload has completed.
C4_ResultOnlyAfterStored ==
  \A r \in Reqs :
    /\ Result(r) =>
         \E o \in r2 : o.req = r /\ o.key = gw[r].out.key
    /\ resp[r].json = "ok" =>
         \E o \in r2 : o.by = "worker" /\ o.req = r /\ o.key = resp[r].key

C4_Witness ==
  \E r \in Reqs :
    /\ Result(r) /\ gw[r].branch = "manifest"
    /\ \E o \in r2 : o.by = "worker" /\ o.req = r /\ o.key = gw[r].out.key

\* C5: when the gateway's put fails or the byte stream breaks off, the caller
\* gets 500 with the renderId and no 200 result carries that renderId.
C5_StreamFault500 ==
  \A r \in Reqs :
    gw[r].raised \cap {"put", "truncated"} # {} =>
      /\ Answered(r) /\ Minted(r)
      /\ gw[r].out.status = 500
      /\ gw[r].out.renderId = gw[r].renderId
      /\ \A q \in Reqs :
           gw[q].out.status = 200 => gw[q].out.renderId # gw[r].renderId

C5_Witness ==
  \E r \in Reqs :
    /\ "truncated" \in gw[r].raised /\ gw[r].branch = "stream"
    /\ gw[r].out.status = 500 /\ gw[r].out.renderId = gw[r].renderId

\* C6: on a 200 JSON manifest the gateway issues no put and stores nothing,
\* and the result's key and size are the manifest's.
C6_ManifestNoArtifactIO ==
  \A r \in Reqs :
    ManifestAnswer(r) /\ Handled(r) =>
      /\ GatewayPuts(r) = {}
      /\ GatewayObjects(r) = {}
      /\ Result(r) =>
           gw[r].out.key = resp[r].key /\ gw[r].out.size = resp[r].size

C6_Witness ==
  \E r \in Reqs :
    /\ ManifestAnswer(r) /\ Result(r)
    /\ gw[r].out.key = "abc.mp4" /\ gw[r].out.size = MaxSize

\* C7: on the streaming path the size of the 200 result is the number of
\* bytes the stream emitted and the bucket stored, whatever Content-Length
\* said.
C7_StreamSizeIsEmitted ==
  \A r \in Reqs :
    StreamAnswer(r) /\ Result(r) =>
      /\ gw[r].out.size = resp[r].bytes
      /\ \E o \in r2 : o.key = gw[r].out.key /\ o.size = resp[r].bytes

C7_Witness ==
  \E r \in Reqs :
    /\ StreamAnswer(r) /\ Result(r)
    /\ resp[r].length # NoSize /\ resp[r].length # resp[r].bytes

\* C8: on the streaming path the gateway's put and the returned result both
\* use the key renderId + ".mp4" of the request's own renderId.
C8_StreamKeyIsOwnId ==
  \A r \in Reqs :
    /\ \A p \in GatewayPuts(r) : Minted(r) /\ p.key = gw[r].renderId \o ".mp4"
    /\ gw[r].branch = "stream" /\ Result(r) =>
         /\ gw[r].out.key = gw[r].renderId \o ".mp4"
         /\ \E o \in GatewayObjects(r) : o.key = gw[r].out.key

C8_Witness ==
  \E r \in Reqs : gw[r].branch = "stream" /\ Result(r)

\* C9 as stated: the stored content type is the type the container declared.
C9_DeclaredTypeStored ==
  \A o \in r2 : o.by = "gateway" => o.ctype = resp[o.req].ctype

\* C9 as amended: the gateway stores every streamed artifact as video/mp4,
\* whatever the container declared.
C9_StoredTypeIsMp4 ==
  /\ \A p \in putLog : p.by = "gateway" => p.ctype = "video/mp4"
  /\ \A o \in r2 : o.by = "gateway" => o.ctype = "video/mp4"

C9_Witness ==
  \E o \in r2 : o.by = "gateway" /\ resp[o.req].ctype = WebM

\* C10: a 200 answer that is not a manifest and has a null body is failed
\* with 500, without any put and without a result.
C10_NullBodyFails ==
  \A r \in Reqs :
    StreamAnswer(r) /\ resp[r].null /\ Handled(r) =>
      /\ Answered(r)
      /\ gw[r].out.status = 500
      /\ GatewayPuts(r) = {}
      /\ GatewayObjects(r) = {}

C10_Witness ==
  \E r \in Reqs :
    StreamAnswer(r) /\ resp[r].null /\ Handled(r) /\ gw[r].out.status = 500

\* the render server has the forwarded request r
Received(r) == wk[r].pc # "idle"
\* the renderer (selectComposition, renderMedia) and what follows it
RendererStages == {"select", "render", "read", "upload"}

\* C11: a request without compositionId that the render server receives is
\* answered 400 with the fixed message, whatever else it carries, and the
\* renderer is never invoked for it: no stage of the render is entered and no
\* file is written for it.
C11_MissingCompositionRejected ==
  \A r \in Reqs :
    Received(r) /\ wk[r].compositionId = NoField =>
      /\ wk[r].pc \notin RendererStages
      /\ \A t \in DOMAIN tmp : tmp[t].owner # r
      /\ wk[r].pc # "recv" =>
           /\ resp[r].status = 400
           /\ resp[r].text = CompositionRequired
           /\ resp[r].json = NoField /\ resp[r].bytes = 0

C11_Witness ==
  \E r \in Reqs :
    /\ wk[r].pc = "end" /\ wk[r].compositionId = NoField
    /\ gw[r].claimed = "caller-id" /\ wk[r].r2Config.accessKeyId # NoField
    /\ resp[r].status = 400 /\ resp[r].text = CompositionRequired

\* the request body of r was parsed by the gateway
Parsed(r) ==
  /\ Minted(r) /\ "parse" \notin gw[r].raised
  /\ gw[r].pc # "json"

C13_MalformedIs400 ==
  \A r \in Reqs : "parse" \in gw[r].raised => gw[r].out.status = 400

\* the container answered request r with a status other than 200 and the
\* gateway has taken that answer
ErrorAnswer(r) == resp[r].status \notin {0, 200} /\ Handled(r)

\* C14: when the container answers with a status other than 200, the gateway
\* issues no put and stores nothing, and the body it returns is the
\* container's body text, unchanged and unwrapped.
C14_ErrorBodyVerbatim ==
  \A r \in Reqs :
    ErrorAnswer(r) =>
      /\ gw[r].branch = "error"
      /\ GatewayPuts(r) = {} /\ GatewayObjects(r) = {}
      /\ Answered(r) /\ gw[r].raised = {} =>
           /\ gw[r].out.text = resp[r].text
           /\ gw[r].out.error = NoField /\ gw[r].out.message = NoField

C14_Witness ==
  \E r \in Reqs :
    /\ ErrorAnswer(r) /\ Answered(r) /\ resp[r].status = 500
    /\ gw[r].out.text = "renderer crashed"

\* C15 as stated: when the container answers with a status that is not a
\* success, the gateway's answer has status 500.
C15_NonSuccessIs500 ==
  \A r \in Reqs :
    ErrorAnswer(r) /\ resp[r].status \notin 200..299 /\ Answered(r) =>
      gw[r].out.status = 500

\* C15 as amended: the gateway's answer carries the container's own status
\* (400 stays 400, 500 stays 500); it is 500 for another status only when
\* reading the container's body failed.
C15_StatusForwarded ==
  \A r \in Reqs :
    ErrorAnswer(r) /\ Answered(r) =>
      gw[r].out.status = IF gw[r].raised = {} THEN resp[r].status ELSE 500

C15_Witness ==
  \E r \in Reqs :
    /\ ErrorAnswer(r) /\ Answered(r)
    /\ resp[r].status = 400 /\ gw[r].out.status = 400

\* the error codes the catch block gives for the other faults
OtherFaultCodes ==
  {CatchResponse(NoField, source).error : source \in {"parse", "read", "put", "truncated"}}

\* C16: when the container handle cannot be obtained or the container does
\* not answer, the gateway answers 500 with an error code that no other
\* fault gets.
C16_UnreachableDistinct ==
  \A r \in Reqs :
    gw[r].raised \cap {"container", "forward"} # {} =>
      /\ Answered(r)
      /\ gw[r].out.status = 500
      /\ gw[r].out.error \notin OtherFaultCodes

\* C17: container.fetch() is called at most once for a request, whatever
\* happens afterwards.
C17_AtMostOneForward ==
  \A r \in Reqs :
    /\ gw[r].forwards <= 1
    /\ gw[r].forwards = 1 <=> Received(r)

C17_Witness ==
  \E r \in Reqs :
    /\ gw[r].forwards = 1 /\ Answered(r)
    /\ "forward" \in gw[r].raised

\* C18: the renderId the render server receives, the keys of every put and
\* stored object of the request, and the renderId, key and url returned are
\* those of the identifier minted for the request; nothing depends on the
\* renderId the caller wrote.
C18_IdIsMinted ==
  \A r \in Reqs :
    LET id == randomUUID(r)
    IN /\ Minted(r) => gw[r].renderId = id
       /\ Received(r) => wk[r].renderId = id
       /\ gw[r].out.renderId \in {NoField, id}
       /\ \A p \in putLog : p.req = r => p.key = id \o ".mp4"
       /\ \A o \in r2 : o.req = r => o.key = id \o ".mp4"
       /\ Result(r) =>
            /\ gw[r].out.renderId = id
            /\ gw[r].out.key = id \o ".mp4"
            /\ gw[r].out.url = PublicBase \o id \o ".mp4"

C18_Witness ==
  \E r \in Reqs :
    /\ gw[r].claimed = "caller-id" /\ Result(r) /\ gw[r].branch = "manifest"
    /\ wk[r].renderId = randomUUID(r)
    /\ gw[r].out.key = randomUUID(r) \o ".mp4"

\* the storage settings of the configuration fetch was invoked with for r
OwnConfig(r) ==
  [accountId |-> gw[r].env.CLOUDFLARE_ACCOUNT_ID,
   accessKeyId |-> gw[r].env.R2_ACCESS_KEY_ID,
   secretAccessKey |-> gw[r].env.R2_SECRET_ACCESS_KEY,
   bucketName |-> gw[r].env.R2_BUCKET_NAME]

\* C19: the credential in the job forwarded for a request is the one of the
\* configuration the gateway was invoked with for that very request, and is
\* there only if that configuration has it, whatever an earlier request was
\* given.
C19_CredentialFromOwnConfig ==
  \A r \in DOMAIN gw :
    wk[r].pc # "idle" =>
      /\ wk[r].r2Config = OwnConfig(r)
      /\ wk[r].r2Config.accessKeyId # NoField =>
           gw[r].env.R2_ACCESS_KEY_ID # NoField
      /\ wk[r].r2Config.secretAccessKey # NoField =>
           gw[r].env.R2_SECRET_ACCESS_KEY # NoField

C19_Witness ==
  \E r \in DOMAIN gw :
    /\ r > 1
    /\ LET q == r - 1
       IN /\ wk[q].pc # "idle" /\ wk[r].pc # "idle"
          /\ gw[q].env = EnvFull /\ gw[r].env = EnvNoSecrets
          /\ wk[q].r2Config.accessKeyId = "akid"
          /\ wk[r].r2Config.accessKeyId = NoField

\* fetch was invoked for r without the two access-key secrets
NoSecrets(r) ==
  /\ Received(r)
  /\ gw[r].env.R2_ACCESS_KEY_ID = NoField
  /\ gw[r].env.R2_SECRET_ACCESS_KEY = NoField
\* the render of r succeeded and its file was read
Rendered(r) == wk[r].fileSize # NoSize
WorkerPuts(r) == {p \in putLog : p.by = "worker" /\ p.req = r}

\* what holds all along for a request handled without the secrets
StreamsWithoutSecrets(r) ==
  NoSecrets(r) =>
    /\ wk[r].pc # "upload" /\ WorkerPuts(r) = {}
    /\ resp[r].json = NoField
    /\ Rendered(r) => resp[r] = RawBytes(wk[r].fileSize, wk[r].fileOwner)
    /\ Rendered(r) /\ Handled(r) =>
         gw[r].branch = "stream" /\ GatewayPuts(r) # {}
    /\ Rendered(r) /\ Answered(r) /\ gw[r].raised = {} =>
         /\ Result(r)
         /\ \E o \in GatewayObjects(r) :
              o.key = gw[r].out.key /\ o.size = wk[r].fileSize

\* C20: without the access-key secrets a request whose render succeeds is
\* still brought to its end: the render server never uploads and answers
\* with the raw bytes, the gateway puts them in the bucket, and the caller is
\* answered, with a 200 result unless the forward or the put itself failed.
C20_DegradesToStreaming ==
  \A r \in Reqs :
    /\ [] StreamsWithoutSecrets(r)
    /\ (NoSecrets(r) /\ Rendered(r)) ~> Answered(r)

C20_Witness ==
  \E r \in Reqs :
    /\ NoSecrets(r) /\ Rendered(r) /\ resp[r].ctype = Mp4
    /\ Result(r) /\ gw[r].branch = "stream"
    /\ \E o \in GatewayObjects(r) : o.key = gw[r].out.key

\* the render server's handler for r has run to its end
Finished(r) == wk[r].pc = "end"
\* files under /tmp written by the render of r
FilesOf(r) == {t \in DOMAIN tmp : tmp[t].owner = r}

\* C21: once the render server has finished handling a request, whatever
\* the request came to (rejected, render failed, upload failed, manifest,
\* raw bytes), no file written for it is left under /tmp.
C21_NoFileLeftBehind ==
  \A r \in DOMAIN wk :
    Finished(r) => FilesOf(r) = {}

C21_Witness ==
  \E r \in DOMAIN wk :
    /\ Finished(r) /\ Rendered(r) /\ resp[r].status = 500
    /\ WorkerPuts(r) # {} /\ FilesOf(r) = {}

\* C22: a request whose method is not POST or whose path is not /render
\* causes no forward to the container and no put.
C22_OnlyPostRenderMutates ==
  \A r \in Reqs :
    gw[r].method # "POST" \/ gw[r].path # "/render" =>
      /\ gw[r].forwards = 0 /\ ~Received(r)
      /\ \A p \in putLog : p.req # r
      /\ \A o \in r2 : o.req # r

\* the handler of r is between its start and its end
InFlight(r) == wk[r].pc \notin {"idle", "recv", "end"}

\* C25: no two requests in flight have the same output path; the bytes a
\* request returns or uploads are those of its own render; and no request
\* finds its rendered file gone when it comes to read it.
C25_NoTempFileInterference ==
  /\ \A r, q \in DOMAIN wk :
       r # q /\ InFlight(r) /\ InFlight(q) =>
         wk[r].outputLocation # wk[q].outputLocation
  /\ \A r \in DOMAIN wk : resp[r].status = 200 => resp[r].owner = r
  /\ \A o \in r2 : o.by = "worker" => o.owner = o.req
  /\ \A r \in DOMAIN wk : wk[r].pc = "read" => tmp[wk[r].outputLocation].owner = r

\* the credential the render server received for r has all four fields
CompleteCredential(r) ==
  /\ wk[r].r2Config.accountId # NoField
  /\ wk[r].r2Config.accessKeyId # NoField
  /\ wk[r].r2Config.secretAccessKey # NoField
  /\ wk[r].r2Config.bucketName # NoField

\* C27: after a successful render the upload is attempted exactly when the
\* credential is complete and renderId is not empty; otherwise nothing is
\* uploaded and the answer is 200 with the raw bytes, video/mp4 and a
\* Content-Length equal to the file size.
C27_UploadIffComplete ==
  \A r \in DOMAIN wk :
    Rendered(r) =>
      /\ WorkerPuts(r) # {} <=> CompleteCredential(r) /\ wk[r].renderId # NoField
      /\ ~(CompleteCredential(r) /\ wk[r].renderId # NoField) =>
           /\ resp[r].status = 200 /\ resp[r].ctype = Mp4
           /\ resp[r].bytes = wk[r].fileSize /\ resp[r].length = wk[r].fileSize

\* the render server has done its validation of the job of r
Validated(r) == wk[r].pc \notin {"idle", "recv"}
\* the gateway has come to the end of one of the two 200 branches for r
Resolved(r) ==
  \/ gw[r].branch = "manifest" /\ resp[r].json = "ok"
  \/ gw[r].branch = "stream" /\ GatewayObjects(r) # {}
\* the steps of one request apart from validation, each after the one before
StepsInOrder(r) ==
  /\ gw[r].forwards > 0 => Minted(r)
  /\ Handled(r) => gw[r].forwards > 0 /\ resp[r].status # 0
  /\ GatewayPuts(r) # {} => Handled(r)
  /\ Result(r) => Resolved(r)
\* a request that has faulted is at the end of its handler, where no step
\* of the gateway is left for it
FaultedIsAbsorbing(r) ==
  gw[r].raised # {} => gw[r].pc \in {"done", "thrown"}

C24_UrlIsBasePlusKey ==
  \A r \in Reqs :
    Result(r) =>
      /\ gw[r].out.key # Undefined =>
           /\ gw[r].out.key # NoField
           /\ gw[r].out.url = "https://renders.tremendous.dev/" \o gw[r].out.key
      /\ gw[r].out.bucketName = gw[r].env.R2_BUCKET_NAME

C24_Witness ==
  \E r \in Reqs :
    /\ Result(r) /\ gw[r].branch = "manifest" /\ gw[r].out.key = "abc.mp4"
    /\ gw[r].out.url = "https://renders.tremendous.dev/abc.mp4"
    /\ gw[r].out.bucketName = BoundBucket

\* C26: nothing of an r2Config written by the caller reaches the render
\* server: the four fields it receives, the bucket of its put and the
\* bucket of every object stored for the request come from the gateway's
\* configuration.
C26_CallerConfigReplaced ==
  \A r \in Reqs :
    Received(r) =>
      /\ wk[r].r2Config.accountId = gw[r].env.CLOUDFLARE_ACCOUNT_ID
      /\ wk[r].r2Config.accessKeyId \in {NoField, EnvFull.R2_ACCESS_KEY_ID}
      /\ wk[r].r2Config.secretAccessKey \in {NoField, EnvFull.R2_SECRET_ACCESS_KEY}
      /\ wk[r].r2Config.bucketName # CallerR2.bucketName
      /\ \A p \in WorkerPuts(r) : p.bucket = gw[r].env.R2_BUCKET_NAME
      /\ \A o \in r2 : o.req = r => o.bucket # CallerR2.bucketName

C26_Witness ==
  \E r \in Reqs :
    /\ gw[r].claimed = "caller-id" /\ Received(r)
    /\ \E o \in r2 : o.by = "worker" /\ o.req = r /\ o.bucket = BoundBucket

\* the render server's upload for r was attempted and rejected
UploadRejected(r) ==
  /\ WorkerPuts(r) # {}
  /\ wk[r].pc \in {"stat", "unlink", "end"}
  /\ \A o \in r2 : ~(o.by = "worker" /\ o.req = r)

\* C28: when the render server's upload fails it answers 500, without
\* manifest and without bytes; the gateway issues no put for the request and
\* the caller's answer is not 200.
C28_UploadFailureIsFinal ==
  \A r \in Reqs :
    UploadRejected(r) =>
      /\ resp[r].status = 500
      /\ resp[r].json = NoField /\ resp[r].bytes = 0
      /\ GatewayPuts(r) = {} /\ GatewayObjects(r) = {}
      /\ Answered(r) => gw[r].out.status = 500

C28_Witness ==
  \E r \in Reqs :
    /\ UploadRejected(r) /\ Answered(r) /\ gw[r].branch = "error"
    /\ gw[r].out.status = 500 /\ gw[r].out.text = ErrorRendering

\* every put begun for r, by either side
PutsOf(r) == {p \in putLog : p.req = r}

ClampedFrames(ticks) ==
  LET atLeast == IF ticks = Infinity \/ ticks > 30 * TicksPerSecond
                 THEN ticks ELSE 30 * TicksPerSecond
      atMost == IF atLeast = Infinity \/ atLeast > 60 * TicksPerSecond
                THEN 60 * TicksPerSecond ELSE atLeast
      whole == (atMost * 30) \div TicksPerSecond
  IN IF whole * TicksPerSecond = atMost * 30 THEN whole ELSE whole + 1

\* C30: calculateMapSceneMetadata returns ceil(min(max(d, 30), 60) * 30)
\* frames when mediaUrl is a video URL whose metadata loads with duration d,
\* and 900 frames in every other case; the result is between 900 and 1800.
C30_DurationClamped ==
  meta.pc = "done" =>
    /\ meta.loaded => getMediaType(meta.mediaUrl) = "video"
    /\ meta.durationInFrames =
         IF meta.loaded THEN ClampedFrames(meta.videoDurationSeconds) ELSE 900
    /\ meta.durationInFrames >= 900 /\ meta.durationInFrames <= 1800

C30_Witness ==
  /\ meta.pc = "done" /\ meta.loaded
  /\ meta.mediaUrl = "https://cdn.example/CLIP.MOV?sig=1"
  /\ meta.videoDurationSeconds = 45 * TicksPerSecond + 1
  /\ meta.durationInFrames = 1351

====
